---- MODULE Spec2Model ----
(***************************************************************************)
(* Agent orchestration core of mcp_agent_test:                             *)
(*   - process_query (autogen_agent.py): roster, SelectorGroupChat run,    *)
(*     message collection and answer extraction;                           *)
(*   - the composite termination condition (keyword OR message count);     *)
(*   - AgentManager (mcp_agents/agent_manager.py): registry, enablement    *)
(*     map and roster materialization.                                     *)
(*                                                                         *)
(* Text is modelled as a sequence of tokens (a token is a word, a blank,   *)
(* a newline or a colon), so that formatting "source: content", the        *)
(* prefix test, split(":", 1) and strip() are computed, not assumed.       *)
(***************************************************************************)
EXTENDS Integers, Sequences, FiniteSets, TLC

VARIABLES
    pc,             \* position of process_query
    messages,       \* process_query's local list `messages` (formatted lines)
    result,         \* how process_query left: running / returned / raised
    all_agents,     \* roster returned by autogen_agent.initialize_agents
    planner_knows,  \* worker names written into the planner's system prompt
    thread,         \* the group chat's message thread (source, content)
    selections,     \* number of speaker selections made (model calls)
    turns,          \* number of agent turns run (model completion calls)
    failure,        \* the exception raised inside process_query, if any
    max_turns_arg,  \* max_turns the termination condition was created with
    agent_types,    \* AgentManager.agent_types
    agent_config,   \* AgentManager.agent_config values (kind -> enabled)
    config_order,   \* insertion order of AgentManager.agent_config
    available_agents, \* AgentManager.available_agents (its key set)
    roster,         \* last list returned by AgentManager.initialize_agents
    planner_args,   \* agent_names passed to the planner constructor
    aborted,        \* TRUE when the last AgentManager call left by an exception
    chat,           \* what AgentManager.create_chat last returned
    called,         \* the AgentManager method (or function) called last
    outcomes,       \* what loading/constructing (or fetching the tools of) each kind did in that call
    ops,            \* number of calls made so far
    args,           \* arguments of the last register/configure/resolve call
    loads,          \* imports performed by _load_agent_function, per kind
    resolved,       \* constructor a resolve returned since the kind's last register
    agent,          \* which tool-calling loop runs: DialogueAgent or PostgreSQLAgent
    run_pc,         \* position of run()
    run_messages,   \* run()'s local list `messages`
    msg,            \* response.choices[0] of the last completion call
    completions,    \* completion calls made so far
    completion_in_flight, \* a completion call has been sent and not answered
    in_flight,      \* identifiers of the tool invocations sent and not answered
    invoked,        \* identifiers of the invocations started in this round, in order
    executed,       \* identifiers of the calls whose result text was obtained
    tool_outcome,   \* how the last tool invocation ended
    printed,        \* what run() printed as its output
    responses,      \* the responses the model gave, in order
    run_error,      \* which awaited call raised out of run(): tool or completion
    session,        \* MCPClient.session
    _client,        \* MCPClient._client (the stdio_client context manager)
    conn_pc,        \* position of each connect() call
    started,        \* transports whose __aenter__ has completed
    entered,        \* sessions whose __aenter__ has completed
    handshakes,     \* initialize requests sent to the host
    list_requests,  \* list_tools requests sent to the host
    tool_requests,  \* call_tool requests sent to the host
    session_releases,   \* __aexit__ calls made on each session
    transport_releases, \* __aexit__ calls made on each transport
    channel_ops,    \* MCPClient calls made so far, connect() aside
    last_call,      \* the last MCPClient call and how it ended
    exit_path,      \* how the `async with MCPClient(...)` block was left
    pending,        \* queries the caller's loop has not processed yet
    submitted,      \* queries handed to process_query so far
    answers,        \* responses the caller's loop has received
    sessions_in_flight, \* process_query calls begun and not yet returned
    call_pc,        \* position of each task's MCPClient.call_tool call
    wire            \* requests and responses exchanged with the tool host, in order

sessionVars == <<pc, messages, result, all_agents, planner_knows, thread,
                 selections, turns, failure>>
policyVars  == <<max_turns_arg>>
managerVars == <<agent_types, agent_config, config_order, available_agents,
                 roster, planner_args, aborted, chat, called, outcomes,
                 ops>>
registryVars == <<args, loads, resolved>>
runVars == <<agent, run_pc, run_messages, msg, completions, completion_in_flight,
             in_flight, invoked, executed, tool_outcome, printed, responses,
             run_error>>
channelVars == <<session, _client, conn_pc, started, entered, handshakes,
                 list_requests, tool_requests, session_releases,
                 transport_releases, channel_ops, last_call, exit_path>>
orchestratorVars == <<pending, submitted, answers, sessions_in_flight>>
invokeVars == <<call_pc, wire>>
vars == <<sessionVars, policyVars, managerVars, registryVars, runVars,
          channelVars, orchestratorVars, invokeVars>>

(***************************************************************************)
(* Bounds of the exploration                                               *)
(***************************************************************************)
MaxLen == 4          \* longest stream fed to the answer extraction
MaxWorkerMsgs == 1   \* worker turns explored per session (the rest: planner)
MaxOps == 3          \* AgentManager calls explored per manager
MaxRounds == 2       \* rounds of a tool-calling loop whose entries are observed
MaxCalls == 2        \* tool calls the model requests in one response
MaxConnects == 2     \* connect() calls explored per MCPClient
MaxChannelOps == 3   \* other MCPClient calls explored per client
MaxQueries == 2      \* queries the caller's loop submits

(***************************************************************************)
(* Text helpers (Python str semantics on token sequences)                  *)
(***************************************************************************)
None == "None"

Whitespace == {" ", "\n"}

RECURSIVE lstrip(_)
lstrip(s) ==
    IF s # <<>> /\ Head(s) \in Whitespace THEN lstrip(Tail(s)) ELSE s

RECURSIVE rstrip(_)
rstrip(s) ==
    IF s # <<>> /\ s[Len(s)] \in Whitespace
    THEN rstrip(SubSeq(s, 1, Len(s) - 1)) ELSE s

\* str.strip()
strip(s) == rstrip(lstrip(s))

\* str.startswith(prefix)
startswith(s, prefix) ==
    Len(s) >= Len(prefix) /\ SubSeq(s, 1, Len(prefix)) = prefix

\* `k in s` for strings
Contains(s, k) ==
    \E i \in 1..(Len(s) - Len(k) + 1) : SubSeq(s, i, i + Len(k) - 1) = k

\* s.split(":", 1) has a second element iff s holds a colon
HasColon(s) == \E i \in DOMAIN s : s[i] = ":"

\* s.split(":", 1)[1]: everything after the first colon
AfterFirstColon(s) ==
    LET i == CHOOSE j \in DOMAIN s :
                 s[j] = ":" /\ \A k \in 1..(j - 1) : s[k] # ":"
    IN  SubSeq(s, i + 1, Len(s))

\* reversed(list)
Reversed(l) == [i \in 1..Len(l) |-> l[Len(l) + 1 - i]]

(***************************************************************************)
(* Names and texts                                                         *)
(***************************************************************************)
User == "user"
Planner == "planner"
Workers == {"dialogue_agent", "postgres_agent", "formatter_agent"}

Q == <<"q">>
Planning == <<"planning...">>
FortyTwo == <<"42">>
Padded == <<" ", "a", ":", "b", "\n">>
Keyword == <<"[TERMINATE]">>

NoResponse == <<"No response generated by the agent team.">>
NoAgents == <<"Error: No agents available. Check the logs for initialization errors.">>
ErrorPrefix == "Error processing your query: "

\* exceptions the awaited calls can raise; asyncio.CancelledError derives
\* from BaseException, the others from Exception
Raisable == {"RuntimeError", "CancelledError"}
IsException(e) == e # "CancelledError"

Running == [status |-> "running", value |-> <<>>]
Returned(s) == [status |-> "returned", value |-> s]
Raised(e) == [status |-> "raised", value |-> <<e>>]

(***************************************************************************)
(* process_query: collecting the stream and extracting the answer          *)
(***************************************************************************)
\* f"{message.source}: {message.content}"
message_str(source, content) == <<source, ":", " ">> \o content

\* variant: the new line is put in front of the list
collect_prepend(msgs, source, content) == <<message_str(source, content)>> \o msgs

\* the loop body: messages.append(message_str)
collect(msgs, source, content) == Append(msgs, message_str(source, content))

\* variant: with planner lines only, the first line is taken
answer_line_first_fallback(msgs) ==
    LET rev == Reversed(msgs)
        hits == {i \in DOMAIN rev : ~startswith(rev[i], <<Planner, ":">>)}
    IN  IF hits # {}
        THEN rev[CHOOSE i \in hits : \A j \in hits : i <= j]
        ELSE msgs[1]

\* variant: scans the list forward, not reversed
answer_line_forward(msgs) ==
    LET hits == {i \in DOMAIN msgs : ~startswith(msgs[i], <<Planner, ":">>)}
    IN  IF hits # {}
        THEN msgs[CHOOSE i \in hits : \A j \in hits : i <= j]
        ELSE msgs[Len(msgs)]

\* the line the answer is taken from: the first of reversed(messages) that
\* does not start with "planner:", else messages[-1]
answer_line(msgs) ==
    LET rev == Reversed(msgs)
        hits == {i \in DOMAIN rev : ~startswith(rev[i], <<Planner, ":">>)}
    IN  IF hits # {}
        THEN rev[CHOOSE i \in hits : \A j \in hits : i <= j]
        ELSE msgs[Len(msgs)]

\* variant: the failure is re-raised
handle_reraise(e) == Raised(e)

\* `except Exception as e` around the whole body of process_query
handle(e) ==
    IF IsException(e) THEN Returned(<<ErrorPrefix, e>>) ELSE Raised(e)

\* variant: no `if messages:` guard, messages[-1] on an empty list raises
extract_answer_unguarded(msgs) ==
    IF msgs # <<>>
    THEN Returned(strip(AfterFirstColon(answer_line(msgs))))
    ELSE handle("IndexError")

\* the return statements after the stream has ended
extract_answer(msgs) ==
    IF msgs # <<>>
    THEN IF HasColon(answer_line(msgs))
         THEN Returned(strip(AfterFirstColon(answer_line(msgs))))
         ELSE handle("IndexError")
    ELSE Returned(NoResponse)

(***************************************************************************)
(* Termination condition (create_termination_condition)                    *)
(*   TextMentionTermination: ends the chat once the text has appeared in   *)
(*   the conversation; MaxMessageTermination: ends it once the number of   *)
(*   messages reaches the maximum; `|` is the logical OR of the two.       *)
(***************************************************************************)
DefaultMaxTurns == 15

\* variant: only the latest message is examined, nothing is latched
TextMentionLatest(th, text) ==
    th # <<>> /\ Contains(th[Len(th)].content, text)

TextMentionTermination(th, text) ==
    \E i \in DOMAIN th : Contains(th[i].content, text)

\* variant: off by one
MaxMessageExceeded(th, max_messages) == Len(th) > max_messages

MaxMessageTermination(th, max_messages) == Len(th) >= max_messages

\* variant: the two conditions combined with AND
create_termination_condition_and(th, keyword, max_turns) ==
    TextMentionTermination(th, keyword) /\ MaxMessageTermination(th, max_turns)

create_termination_condition(th, keyword, max_turns) ==
    TextMentionTermination(th, keyword) \/ MaxMessageTermination(th, max_turns)

\* process_query builds the chat with the defaults: "[TERMINATE]", 15
terminated(th) == create_termination_condition(th, Keyword, DefaultMaxTurns)

(***************************************************************************)
(* autogen_agent.initialize_agents                                         *)
(*   dt: outcome of get_dialogue_tools ("tools" | "empty": none or error)  *)
(*   pt: outcome of get_postgres_tools ("tools" | "empty" | "missing_env": *)
(*       ValueError for missing environment variables)                     *)
(***************************************************************************)
DialogueFetch == {"tools", "empty"}
PostgresFetch == {"tools", "empty", "missing_env"}

\* what fetching a server's tools can do: mcp_server_tools returns tools,
\* returns an empty list or raises; for PostgreSQL the database settings
\* may be missing from the environment
FetchOutcomes == {"tools", "empty", "error"}
PostgresOutcomes == FetchOutcomes \cup {"missing_env"}

\* get_dialogue_tools(): an exception of the fetch is caught and [] returned
get_dialogue_tools(o) == IF o = "tools" THEN "tools" ELSE "empty"

\* get_postgres_tools(): ValueError when the settings are missing (raised
\* before the try), otherwise as get_dialogue_tools
get_postgres_tools(o) ==
    IF o = "missing_env" THEN "missing_env"
    ELSE IF o = "tools" THEN "tools" ELSE "empty"

\* variant: the tool-backed workers are built whatever the fetch returned
initialize_agents_always(dt, pt) ==
    LET w1 == <<"dialogue_agent">>
        w2 == IF pt # "missing_env" THEN Append(w1, "postgres_agent") ELSE w1
        worker_agents == Append(w2, "formatter_agent")
    IN  [agents |-> Append(worker_agents, Planner),
         described |-> worker_agents]

initialize_agents(dt, pt) ==
    LET w1 == IF dt = "tools" THEN <<"dialogue_agent">> ELSE <<>>
        w2 == IF pt = "tools" THEN Append(w1, "postgres_agent") ELSE w1
        worker_agents == Append(w2, "formatter_agent")
    IN  [agents |-> Append(worker_agents, Planner),
         described |-> worker_agents]

Range(f) == {f[i] : i \in DOMAIN f}

(***************************************************************************)
(* AgentManager: registry entries                                          *)
(***************************************************************************)
PlannerKind == "planner_agent"
CustomKind == "custom_agent"
GhostKind == "ghost_agent"

BuiltinModule(k) ==
    CASE k = "dialogue_agent"  -> "mcp_agents.dialogue_agent"
      [] k = "postgres_agent"  -> "mcp_agents.postgres_agent"
      [] k = "formatter_agent" -> "mcp_agents.formatter_agent"
      [] k = PlannerKind       -> "mcp_agents.planner_agent"
      [] k = CustomKind        -> "mcp_agents.custom_agent"

BuiltinFunction(k) ==
    CASE k = "dialogue_agent"  -> "create_dialogue_agent"
      [] k = "postgres_agent"  -> "create_postgres_agent"
      [] k = "formatter_agent" -> "create_formatter_agent"
      [] k = PlannerKind       -> "create_planner_agent"
      [] k = CustomKind        -> "create_custom_agent"

\* the kinds the registry is exercised with
Kinds == Workers \cup {PlannerKind, CustomKind, GhostKind}

\* the `name=` each creation function gives its AssistantAgent
AgentName(fn) ==
    CASE fn = "create_dialogue_agent"  -> "dialogue_agent"
      [] fn = "create_postgres_agent"  -> "postgres_agent"
      [] fn = "create_formatter_agent" -> "formatter_agent"
      [] fn = "create_planner_agent"   -> Planner
      [] fn = "create_custom_agent"    -> "custom_agent"

\* a registry entry that has not been loaded
Unloaded(module, function) ==
    [module |-> module, function |-> function, loaded |-> FALSE, create_fn |-> None]

(***************************************************************************)
(* Initial state                                                           *)
(***************************************************************************)
InitSession ==
    /\ messages = <<>>
    /\ result = Running
    /\ all_agents = <<>>
    /\ planner_knows = <<>>
    /\ thread = <<>>
    /\ selections = 0
    /\ turns = 0
    /\ failure = None

InitManager ==
    /\ agent_types = [k \in Workers |-> Unloaded(BuiltinModule(k), BuiltinFunction(k))]
    /\ agent_config = [k \in Workers |-> k # "formatter_agent"]
    /\ config_order = <<"dialogue_agent", "postgres_agent", "formatter_agent">>
    /\ available_agents = {}
    /\ roster = <<>>
    /\ planner_args = <<>>
    /\ aborted = FALSE
    /\ chat = "unset"
    /\ called = None
    /\ outcomes = <<>>
    /\ ops = 0

\* the connect() calls made on one MCPClient; the transport and the session
\* a call creates are named after the call
Callers == 1..MaxConnects

\* self.session = None, self._client = None
NoObject == 0

\* no resolve has been made
InitRegistry ==
    /\ args = <<>>
    /\ loads = [k \in Kinds |-> 0]
    /\ resolved = [k \in Kinds |-> None]

\* run() has not been called
InitRun ==
    /\ agent = None
    /\ run_pc = "idle"
    /\ run_messages = <<>>
    /\ msg = [finish_reason |-> None, tool_calls |-> <<>>, content |-> None]
    /\ completions = 0
    /\ completion_in_flight = FALSE
    /\ in_flight = {}
    /\ invoked = <<>>
    /\ executed = <<>>
    /\ tool_outcome = None
    /\ printed = <<>>
    /\ responses = <<>>
    /\ run_error = None

\* MCPClient.__init__: no session, no transport; connect() not called
InitChannel ==
    /\ session = NoObject
    /\ _client = NoObject
    /\ conn_pc = [t \in Callers |-> "idle"]
    /\ started = {}
    /\ entered = {}
    /\ handshakes = 0
    /\ list_requests = 0
    /\ tool_requests = 0
    /\ session_releases = [t \in Callers |-> 0]
    /\ transport_releases = [t \in Callers |-> 0]
    /\ channel_ops = 0
    /\ last_call = [op |-> None, raised |-> None, ready |-> FALSE]
    /\ exit_path = None

\* no call_tool call has been made; nothing has been exchanged with the host
InitInvoke ==
    /\ call_pc = [t \in Callers |-> "idle"]
    /\ wire = <<>>

\* the caller's loop has not started
InitOrchestrator ==
    /\ pending = <<>>
    /\ submitted = <<>>
    /\ answers = <<>>
    /\ sessions_in_flight = 0

(***************************************************************************)
(* process_query driven by an arbitrary stream (lines 340-360)             *)
(***************************************************************************)
Speakers == {User, Planner, "formatter_agent"}
Texts == {Q, Planning, FortyTwo, Padded, Keyword}

InitExtract ==
    /\ pc = "stream"
    /\ InitSession
    /\ max_turns_arg = DefaultMaxTurns
    /\ InitInvoke
    /\ InitManager
    /\ InitRegistry
    /\ InitRun
    /\ InitChannel
    /\ InitOrchestrator

\* the stream yields an object with `source` and `content`
StreamMessage(source, content) ==
    /\ pc = "stream"
    /\ Len(messages) < MaxLen
    /\ thread' = Append(thread, [source |-> source, content |-> content])
    /\ messages' = collect(messages, source, content)
    /\ UNCHANGED <<pc, result, all_agents, planner_knows, selections, turns, failure>>
    /\ UNCHANGED <<policyVars, invokeVars, managerVars, registryVars, runVars,
                   channelVars, orchestratorVars>>

\* the stream yields its TaskResult (no `source`: skipped) and is exhausted
StreamEnd ==
    /\ pc = "stream"
    /\ result' = extract_answer(messages)
    /\ pc' = "done"
    /\ UNCHANGED <<messages, all_agents, planner_knows, thread, selections, turns, failure>>
    /\ UNCHANGED <<policyVars, invokeVars, managerVars, registryVars, runVars,
                   channelVars, orchestratorVars>>

NextExtract ==
    \/ \E source \in Speakers, content \in Texts : StreamMessage(source, content)
    \/ StreamEnd

SpecExtract == InitExtract /\ [][NextExtract]_vars

(***************************************************************************)
(* process_query as a whole (lines 310-365), with the SelectorGroupChat    *)
(* it runs: seed the thread with the task, then select a run the  *)
(* speaker's turn, append, and evaluate the termination condition.         *)
(***************************************************************************)
Queries == {Q, Keyword}

\* what an agent may say in a turn
TurnTexts(name) ==
    IF name = Planner THEN {Planning, Keyword} ELSE {FortyTwo, Keyword}

WorkerMsgs(th) == Cardinality({i \in DOMAIN th : th[i].source \in Workers})

InitQuery ==
    /\ pc = "start"
    /\ InitSession
    /\ max_turns_arg = DefaultMaxTurns
    /\ InitInvoke
    /\ InitManager
    /\ InitRegistry
    /\ InitRun
    /\ InitChannel
    /\ InitOrchestrator

\* model_client = create_model_client()
CreateModelClient ==
    /\ pc = "start"
    /\ pc' = "init"
    /\ UNCHANGED <<messages, result, all_agents, planner_knows, thread,
                   selections, turns, failure>>
    /\ UNCHANGED <<policyVars, invokeVars, managerVars, registryVars, runVars,
                   channelVars, orchestratorVars>>

\* all_agents = await initialize_agents(model_client); an empty roster
\* returns the "no agents" error, otherwise the chat is constructed
InitializeAgents(dt, pt) ==
    /\ pc = "init"
    /\ all_agents' = initialize_agents(dt, pt).agents
    /\ planner_knows' = initialize_agents(dt, pt).described
    /\ IF all_agents' = <<>>
       THEN pc' = "done" /\ result' = Returned(NoAgents)
       ELSE pc' = "chat" /\ UNCHANGED result
    /\ UNCHANGED <<messages, thread, selections, turns, failure>>
    /\ UNCHANGED <<policyVars, invokeVars, managerVars, registryVars, runVars,
                   channelVars, orchestratorVars>>

\* chat.run_stream(task=query): the task is appended to the thread as the
\* user's message and yielded; the termination condition is evaluated on it
RunStream(query) ==
    /\ pc = "chat"
    /\ thread' = <<[source |-> User, content |-> query]>>
    /\ messages' = collect(messages, User, query)
    /\ pc' = IF terminated(thread') THEN "stopped" ELSE "select"
    /\ UNCHANGED <<result, all_agents, planner_knows, selections, turns, failure>>
    /\ UNCHANGED <<policyVars, invokeVars, managerVars, registryVars, runVars,
                   channelVars, orchestratorVars>>

\* one round of the chat: the selector (a model call) names a participant
\* of the roster, the selected agent answers (a model completion call), its
\* message is appended to the thread and yielded (collected by
\* process_query), and the termination condition is evaluated again
AgentTurn(name, content) ==
    /\ pc = "select"
    /\ name \in Range(all_agents)
    /\ name \in Workers => WorkerMsgs(thread) < MaxWorkerMsgs
    /\ content \in TurnTexts(name)
    /\ selections' = selections + 1
    /\ turns' = turns + 1
    /\ thread' = Append(thread, [source |-> name, content |-> content])
    /\ messages' = collect(messages, name, content)
    /\ pc' = IF terminated(thread') THEN "stopped" ELSE "select"
    /\ UNCHANGED <<result, all_agents, planner_knows, failure>>
    /\ UNCHANGED <<policyVars, invokeVars, managerVars, registryVars, runVars,
                   channelVars, orchestratorVars>>

\* the stream is exhausted: the answer is extracted and returned
ChatStop ==
    /\ pc = "stopped"
    /\ result' = extract_answer(messages)
    /\ pc' = "done"
    /\ UNCHANGED <<messages, all_agents, planner_knows, thread, selections, turns, failure>>
    /\ UNCHANGED <<policyVars, invokeVars, managerVars, registryVars, runVars,
                   channelVars, orchestratorVars>>

\* create_model_client() or initialize_agents raises (no await in the
\* former, so no cancellation there)
SetupFails(e) ==
    /\ pc \in {"start", "init"}
    /\ pc = "start" => IsException(e)
    /\ failure' = e
    /\ result' = handle(e)
    /\ pc' = "done"
    /\ UNCHANGED <<messages, all_agents, planner_knows, thread, selections, turns>>
    /\ UNCHANGED <<policyVars, invokeVars, managerVars, registryVars, runVars,
                   channelVars, orchestratorVars>>

\* the speaker selection raises or is cancelled
SelectionFails(e) ==
    /\ pc = "select"
    /\ selections' = selections + 1
    /\ failure' = e
    /\ result' = handle(e)
    /\ pc' = "done"
    /\ UNCHANGED <<messages, all_agents, planner_knows, thread, turns>>
    /\ UNCHANGED <<policyVars, invokeVars, managerVars, registryVars, runVars,
                   channelVars, orchestratorVars>>

\* the selected agent's turn raises or is cancelled
TurnFails(e) ==
    /\ pc = "select"
    /\ selections' = selections + 1
    /\ turns' = turns + 1
    /\ failure' = e
    /\ result' = handle(e)
    /\ pc' = "done"
    /\ UNCHANGED <<messages, all_agents, planner_knows, thread>>
    /\ UNCHANGED <<policyVars, invokeVars, managerVars, registryVars, runVars,
                   channelVars, orchestratorVars>>

Next ==
    \/ CreateModelClient
    \/ \E dt \in DialogueFetch, pt \in PostgresFetch : InitializeAgents(dt, pt)
    \/ \E query \in Queries : RunStream(query)
    \/ \E name \in Workers \cup {Planner},
          content \in {Planning, FortyTwo, Keyword} : AgentTurn(name, content)
    \/ ChatStop
    \/ \E e \in Raisable : SetupFails(e)
    \/ \E e \in Raisable : SelectionFails(e)
    \/ \E e \in Raisable : TurnFails(e)

Spec == InitQuery /\ [][Next]_vars

\* every awaited call returns or raises: no step is postponed forever
FairSpec == InitQuery /\ [][Next]_vars /\ WF_vars(Next)

(***************************************************************************)
(* The termination condition on its own: a condition created with some     *)
(* max_turns is fed one message after another                              *)
(***************************************************************************)
PolicySources == {Planner, "formatter_agent"}
PolicyTexts == {Planning, Keyword}

InitPolicy ==
    /\ pc = "policy"
    /\ InitSession
    /\ max_turns_arg \in 1..MaxLen
    /\ InitInvoke
    /\ InitManager
    /\ InitRegistry
    /\ InitRun
    /\ InitChannel
    /\ InitOrchestrator

PolicyAppend(source, content) ==
    /\ pc = "policy"
    /\ Len(thread) < MaxLen
    /\ thread' = Append(thread, [source |-> source, content |-> content])
    /\ UNCHANGED <<pc, messages, result, all_agents, planner_knows, selections, turns, failure>>
    /\ UNCHANGED <<policyVars, invokeVars, managerVars, registryVars, runVars,
                   channelVars, orchestratorVars>>

NextPolicy ==
    \E source \in PolicySources, content \in PolicyTexts :
        PolicyAppend(source, content)

SpecPolicy == InitPolicy /\ [][NextPolicy]_vars

(***************************************************************************)
(* AgentManager operations                                                 *)
(***************************************************************************)
\* variant: the entry is marked loaded before the import is attempted, and
\* a marked entry is answered from the cache
_load_agent_function_marks_first(types, agent_type, import_ok) ==
    IF agent_type \notin DOMAIN types
    THEN [fn |-> None, types |-> types, imports |-> 0]
    ELSE IF types[agent_type].loaded
    THEN [fn |-> types[agent_type].create_fn, types |-> types, imports |-> 0]
    ELSE IF import_ok
    THEN [fn |-> types[agent_type].function,
          types |-> [types EXCEPT ![agent_type].loaded = TRUE,
                                  ![agent_type].create_fn = types[agent_type].function],
          imports |-> 1]
    ELSE [fn |-> None, types |-> [types EXCEPT ![agent_type].loaded = TRUE],
          imports |-> 1]

\* variant: the cache is never consulted
_load_agent_function_uncached(types, agent_type, import_ok) ==
    IF agent_type \notin DOMAIN types
    THEN [fn |-> None, types |-> types, imports |-> 0]
    ELSE IF import_ok
    THEN [fn |-> types[agent_type].function,
          types |-> [types EXCEPT ![agent_type].loaded = TRUE,
                                  ![agent_type].create_fn = types[agent_type].function],
          imports |-> 1]
    ELSE [fn |-> None, types |-> types, imports |-> 1]

\* variant: a kind without an entry is given an empty entry
_load_agent_function_registers_unknown(types, agent_type, import_ok) ==
    IF agent_type \notin DOMAIN types
    THEN [fn |-> None,
          types |-> [x \in DOMAIN types \cup {agent_type} |->
                      IF x = agent_type THEN Unloaded(agent_type, agent_type)
                      ELSE types[x]],
          imports |-> 0]
    ELSE IF types[agent_type].loaded /\ types[agent_type].create_fn # None
    THEN [fn |-> types[agent_type].create_fn, types |-> types, imports |-> 0]
    ELSE IF import_ok
    THEN [fn |-> types[agent_type].function,
          types |-> [types EXCEPT ![agent_type].loaded = TRUE,
                                  ![agent_type].create_fn = types[agent_type].function],
          imports |-> 1]
    ELSE [fn |-> None, types |-> types, imports |-> 1]

\* _load_agent_function(agent_type); import_ok: whether importing the module
\* and getting the function succeeds, if it comes to that.
\* Returns the function (or None), the registry after the call and the
\* number of imports it performed.
_load_agent_function(types, agent_type, import_ok) ==
    IF agent_type \notin DOMAIN types
    THEN [fn |-> None, types |-> types, imports |-> 0]
    ELSE IF types[agent_type].loaded /\ types[agent_type].create_fn # None
    THEN [fn |-> types[agent_type].create_fn, types |-> types, imports |-> 0]
    ELSE IF import_ok
    THEN [fn |-> types[agent_type].function,
          types |-> [types EXCEPT ![agent_type].loaded = TRUE,
                                  ![agent_type].create_fn = types[agent_type].function],
          imports |-> 1]
    ELSE [fn |-> None, types |-> types, imports |-> 1]

\* dict item assignment: d[k] = v
SetItem(d, k, v) == [x \in DOMAIN d \cup {k} |-> IF x = k THEN v ELSE d[x]]

\* insertion order after d[k] = v
OrderAfterSet(order, k) ==
    IF k \in Range(order) THEN order ELSE Append(order, k)

\* _load_planner(): (re)registers planner_agent and loads it
_load_planner(types, import_ok) ==
    _load_agent_function(
        SetItem(types, PlannerKind,
                Unloaded(BuiltinModule(PlannerKind), BuiltinFunction(PlannerKind))),
        PlannerKind, import_ok)

\* what can happen to an enabled kind in one materialization
Outcomes == {"unknown", "load_fails", "raises", "returns_none", "agent"}

\* create_dialogue_agent: the agent is built with the tools fetched, or
\* without tools (tools=None) when the fetch returned nothing
create_dialogue_agent(tools) ==
    [outcome |-> "agent", with_tools |-> tools = "tools"]

\* create_postgres_agent: as create_dialogue_agent, and None when
\* get_postgres_tools raises ValueError
create_postgres_agent(tools) ==
    IF tools = "missing_env"
    THEN [outcome |-> "returns_none", with_tools |-> FALSE]
    ELSE [outcome |-> "agent", with_tools |-> tools = "tools"]

\* create_postgres_agent returns None when the database settings are
\* missing; the other creation functions return the agent or raise
ConstructorOutcomes(fn) ==
    IF fn = "create_postgres_agent"
    THEN {"raises"} \cup {create_postgres_agent(get_postgres_tools(o)).outcome :
                              o \in PostgresOutcomes}
    ELSE IF fn = "create_dialogue_agent"
    THEN {"raises"} \cup {create_dialogue_agent(get_dialogue_tools(o)).outcome :
                              o \in FetchOutcomes}
    ELSE {"raises", "agent"}

OutcomesFor(types, k) ==
    IF k \notin DOMAIN types THEN {"unknown"}
    ELSE IF types[k].loaded /\ types[k].create_fn # None
    THEN ConstructorOutcomes(types[k].function)
    ELSE {"load_fails"} \cup ConstructorOutcomes(types[k].function)

\* variant: no try/except around the body, a raising constructor leaves the loop
worker_step_unprotected(acc, k, outcome) ==
    LET ld == _load_agent_function(acc.types, k, outcome # "load_fails")
    IN  IF ld.fn = None
        THEN [acc EXCEPT !.types = ld.types]
        ELSE IF outcome = "raises"
        THEN [acc EXCEPT !.types = ld.types, !.aborted = TRUE]
        ELSE IF outcome = "agent"
        THEN [acc EXCEPT !.types = ld.types,
                         !.workers = Append(acc.workers, AgentName(ld.fn)),
                         !.available = acc.available \cup {k}]
        ELSE [acc EXCEPT !.types = ld.types]

\* body of the for loop for one enabled kind: load, construct, append; an
\* exception is caught and the kind is skipped
worker_step(acc, k, outcome) ==
    LET ld == _load_agent_function(acc.types, k, outcome # "load_fails")
    IN  IF ld.fn # None /\ outcome = "agent"
        THEN [acc EXCEPT !.types = ld.types,
                         !.workers = Append(acc.workers, AgentName(ld.fn)),
                         !.available = acc.available \cup {k}]
        ELSE [acc EXCEPT !.types = ld.types]

\* for agent_type, is_enabled in self.agent_config.items()
RECURSIVE worker_loop(_, _, _, _)
worker_loop(order, config, out, acc) ==
    IF order = <<>> \/ acc.aborted THEN acc
    ELSE IF config[Head(order)]
    THEN worker_loop(Tail(order), config, out,
                     worker_step(acc, Head(order), out[Head(order)]))
    ELSE worker_loop(Tail(order), config, out, acc)

\* variant: the planner is told the enabled kinds
agent_names_enabled(worker_agents, order, config) ==
    SelectSeq(order, LAMBDA k : config[k])

\* agent_names = [agent.name for agent in worker_agents]
agent_names(worker_agents, order, config) == worker_agents

\* AgentManager.initialize_agents; planner_ok: whether the planner module
\* can be imported during this call
AgentManager_initialize_agents(types, order, config, available, out, planner_ok) ==
    LET acc == worker_loop(order, config, out,
                           [types |-> types, workers |-> <<>>,
                            available |-> available, aborted |-> FALSE])
        first == _load_agent_function(acc.types, PlannerKind, planner_ok)
        planner == IF first.fn # None THEN first ELSE _load_planner(first.types, planner_ok)
    IN  IF acc.aborted
        THEN [types |-> acc.types, available |-> acc.available, aborted |-> TRUE,
              agents |-> <<>>, names |-> <<>>]
        ELSE IF acc.workers = <<>>
        THEN [types |-> acc.types, available |-> acc.available, aborted |-> FALSE,
              agents |-> <<>>, names |-> <<>>]
        ELSE IF planner.fn # None
        THEN [types |-> planner.types, available |-> acc.available, aborted |-> FALSE,
              agents |-> Append(acc.workers, AgentName(planner.fn)),
              names |-> agent_names(acc.workers, order, config)]
        ELSE [types |-> planner.types, available |-> acc.available, aborted |-> FALSE,
              agents |-> acc.workers, names |-> <<>>]

\* variant: the chat is built whatever the roster
create_chat_always(all) == "SelectorGroupChat"

\* create_chat after initialize_agents: None for an empty roster
create_chat(all) == IF all = <<>> THEN None ELSE "SelectorGroupChat"

EnabledKinds == {k \in DOMAIN agent_config : agent_config[k]}

\* every assignment of a possible outcome to each of the kinds
RECURSIVE ChoicesOver(_, _)
ChoicesOver(types, kinds) ==
    IF kinds = {} THEN {[k \in {} |-> "unknown"]}
    ELSE LET k == CHOOSE x \in kinds : TRUE
         IN  {SetItem(f, k, o) : f \in ChoicesOver(types, kinds \ {k}),
                                 o \in OutcomesFor(types, k)}

OutcomeChoices == ChoicesOver(agent_types, EnabledKinds)

\* await manager.initialize_agents()
InitializeAgentsCall(out, planner_ok) ==
    /\ ops < MaxOps
    /\ LET r == AgentManager_initialize_agents(agent_types, config_order,
                    agent_config, available_agents, out, planner_ok)
       IN  /\ agent_types' = r.types
           /\ available_agents' = r.available
           /\ aborted' = r.aborted
           /\ roster' = IF r.aborted THEN roster ELSE r.agents
           /\ planner_args' = r.names
    /\ called' = "initialize_agents"
    /\ outcomes' = out
    /\ ops' = ops + 1
    /\ args' = <<>>
    /\ UNCHANGED <<agent_config, config_order, chat, loads, resolved>>
    /\ UNCHANGED <<sessionVars, policyVars, invokeVars, runVars, channelVars, orchestratorVars>>

\* await manager.create_chat()
CreateChatCall(out, planner_ok) ==
    /\ ops < MaxOps
    /\ LET r == AgentManager_initialize_agents(agent_types, config_order,
                    agent_config, available_agents, out, planner_ok)
       IN  /\ agent_types' = r.types
           /\ available_agents' = r.available
           /\ aborted' = r.aborted
           /\ roster' = IF r.aborted THEN roster ELSE r.agents
           /\ planner_args' = r.names
           /\ chat' = IF r.aborted THEN chat ELSE create_chat(r.agents)
    /\ called' = "create_chat"
    /\ outcomes' = out
    /\ ops' = ops + 1
    /\ args' = <<>>
    /\ UNCHANGED <<agent_config, config_order, loads, resolved>>
    /\ UNCHANGED <<sessionVars, policyVars, invokeVars, runVars, channelVars, orchestratorVars>>

\* manager.register_agent_type(agent_name, module_path, function_name, enabled)
RegisterKinds == {CustomKind, "dialogue_agent"}

\* variant: an existing kind keeps its enablement (setdefault)
register_agent_type_setdefault(agent_name, module_path, function_name, enabled) ==
    /\ agent_types' = SetItem(agent_types, agent_name,
                              Unloaded(module_path, function_name))
    /\ agent_config' = IF agent_name \in DOMAIN agent_config THEN agent_config
                       ELSE SetItem(agent_config, agent_name, enabled)
    /\ config_order' = OrderAfterSet(config_order, agent_name)

register_agent_type(agent_name, module_path, function_name, enabled) ==
    /\ agent_types' = SetItem(agent_types, agent_name,
                              Unloaded(module_path, function_name))
    /\ agent_config' = SetItem(agent_config, agent_name, enabled)
    /\ config_order' = OrderAfterSet(config_order, agent_name)

RegisterCall(k, enabled) ==
    /\ ops < MaxOps
    /\ register_agent_type(k, BuiltinModule(k), BuiltinFunction(k), enabled)
    /\ called' = "register_agent_type"
    /\ ops' = ops + 1
    /\ args' = [agent_name |-> k, module_path |-> BuiltinModule(k),
                 function_name |-> BuiltinFunction(k), enabled |-> enabled]
    /\ resolved' = [resolved EXCEPT ![k] = None]
    /\ UNCHANGED <<available_agents, roster, planner_args, aborted, chat, outcomes,
                   loads>>
    /\ UNCHANGED <<sessionVars, policyVars, invokeVars, runVars, channelVars, orchestratorVars>>

\* manager.configure_agents(config): self.agent_config.update(config);
\* a config is an ordered list of (kind, enabled) items
\* variant: only kinds that have no enablement yet are taken from the config
RECURSIVE dict_update_new_only(_, _)
dict_update_new_only(d, items) ==
    IF items = <<>> THEN d
    ELSE IF Head(items).kind \in DOMAIN d
    THEN dict_update_new_only(d, Tail(items))
    ELSE dict_update_new_only(SetItem(d, Head(items).kind, Head(items).enabled),
                              Tail(items))

RECURSIVE dict_update(_, _)
dict_update(d, items) ==
    IF items = <<>> THEN d
    ELSE dict_update(SetItem(d, Head(items).kind, Head(items).enabled), Tail(items))

RECURSIVE order_update(_, _)
order_update(order, items) ==
    IF items = <<>> THEN order
    ELSE order_update(OrderAfterSet(order, Head(items).kind), Tail(items))

ConfigKinds == Workers \cup {GhostKind}
Configs ==
    {<<[kind |-> k, enabled |-> b]>> : k \in ConfigKinds, b \in BOOLEAN}
    \cup {<< [kind |-> "formatter_agent", enabled |-> TRUE],
             [kind |-> "dialogue_agent", enabled |-> FALSE] >>}

ConfigureCall(config) ==
    /\ ops < MaxOps
    /\ agent_config' = dict_update(agent_config, config)
    /\ config_order' = order_update(config_order, config)
    /\ called' = "configure_agents"
    /\ ops' = ops + 1
    /\ args' = config
    /\ UNCHANGED <<agent_types, available_agents, roster, planner_args, aborted,
                   chat, outcomes, loads, resolved>>
    /\ UNCHANGED <<sessionVars, policyVars, invokeVars, runVars, channelVars, orchestratorVars>>

\* autogen_agent.initialize_agents(model_client) called on its own; it
\* shares no state with an AgentManager, so it is explored as the first call
AutogenInitializeCall(d, p) ==
    /\ ops < MaxOps
    /\ called = None
    /\ LET r == initialize_agents(get_dialogue_tools(d), get_postgres_tools(p))
       IN  /\ all_agents' = r.agents
           /\ planner_knows' = r.described
    /\ outcomes' = [k \in {"dialogue_agent", "postgres_agent"} |->
                       IF k = "dialogue_agent" THEN d ELSE p]
    /\ called' = "autogen_agent.initialize_agents"
    /\ ops' = ops + 1
    /\ UNCHANGED <<pc, messages, result, thread, selections, turns, failure>>
    /\ args' = <<>>
    /\ UNCHANGED <<agent_types, agent_config, config_order, available_agents,
                   roster, planner_args, aborted, chat, loads, resolved>>
    /\ UNCHANGED <<policyVars, invokeVars, runVars, channelVars, orchestratorVars>>

InitRoster ==
    /\ pc = "manager"
    /\ InitSession
    /\ max_turns_arg = DefaultMaxTurns
    /\ InitInvoke
    /\ InitManager
    /\ InitRegistry
    /\ InitRun
    /\ InitChannel
    /\ InitOrchestrator

NextManager ==
    \/ \E out \in OutcomeChoices, planner_ok \in BOOLEAN : InitializeAgentsCall(out, planner_ok)
    \/ \E out \in OutcomeChoices, planner_ok \in BOOLEAN : CreateChatCall(out, planner_ok)
    \/ \E k \in RegisterKinds, enabled \in BOOLEAN : RegisterCall(k, enabled)
    \/ \E config \in Configs : ConfigureCall(config)
    \/ \E d \in FetchOutcomes, p \in PostgresOutcomes : AutogenInitializeCall(d, p)

SpecManager == InitRoster /\ [][NextManager]_vars

(***************************************************************************)
(* The registry on its own: _load_agent_function is called kind by kind,   *)
(* between calls of register_agent_type and configure_agents               *)
(***************************************************************************)
ResolveKinds == {"dialogue_agent", CustomKind, GhostKind}

\* create_fn = manager._load_agent_function(agent_type)
ResolveCall(agent_type, import_ok) ==
    /\ ops < MaxOps
    /\ LET r == _load_agent_function(agent_types, agent_type, import_ok)
       IN  /\ agent_types' = r.types
           /\ loads' = [loads EXCEPT ![agent_type] = @ + r.imports]
           /\ resolved' = IF r.fn # None /\ resolved[agent_type] = None
                          THEN [resolved EXCEPT ![agent_type] = r.fn]
                          ELSE resolved
           /\ args' = [agent_type |-> agent_type, import_ok |-> import_ok,
                       returned |-> r.fn]
    /\ called' = "_load_agent_function"
    /\ ops' = ops + 1
    /\ UNCHANGED <<agent_config, config_order, available_agents, roster,
                   planner_args, aborted, chat, outcomes>>
    /\ UNCHANGED <<sessionVars, policyVars, invokeVars, runVars, channelVars, orchestratorVars>>

InitRegistryOnly ==
    /\ pc = "registry"
    /\ InitSession
    /\ max_turns_arg = DefaultMaxTurns
    /\ InitInvoke
    /\ InitManager
    /\ InitRegistry
    /\ InitRun
    /\ InitChannel
    /\ InitOrchestrator

NextRegistry ==
    \/ \E agent_type \in ResolveKinds, import_ok \in BOOLEAN :
          ResolveCall(agent_type, import_ok)
    \/ \E k \in RegisterKinds, enabled \in BOOLEAN : RegisterCall(k, enabled)
    \/ \E config \in Configs : ConfigureCall(config)

SpecRegistry == InitRegistryOnly /\ [][NextRegistry]_vars

(***************************************************************************)
(* The tool-calling loops of client.py: DialogueAgent.run (lines 115-186)  *)
(* and PostgreSQLAgent.run (lines 200-302).  A step ends at each await:    *)
(* the completion call and each call_tool.  The arguments the model gives  *)
(* are taken to be valid JSON.                                             *)
(***************************************************************************)
DialogueAgent == "DialogueAgent"
PostgreSQLAgent == "PostgreSQLAgent"
Agents == {DialogueAgent, PostgreSQLAgent}

Prompt == "prompt"
Text == "text"
Empty == ""
Rows == "rows"
ToolName == "tool"
ToolError == "tool error"

\* an element of run()'s list `messages`
Entry(role, tool_calls, tool_call_id, content) ==
    [role |-> role, tool_calls |-> tool_calls, tool_call_id |-> tool_call_id,
     content |-> content]

\* {"role": "user", "content": prompt}
UserEntry(prompt) == Entry("user", <<>>, None, prompt)

\* {"role": "assistant", "content": msg.content}
AssistantEntry(content) == Entry("assistant", <<>>, None, content)

\* f"Error executing {fn_name}: {error_message}"
ErrorText(fn_name, error_message) ==
    <<"Error executing ", fn_name, ": ", error_message>>

\* variant: the result entry does not carry the identifier of the call
tool_entries_unlinked(call_info, result_text) ==
    << Entry("assistant", <<call_info.id>>, None, None),
       Entry("tool", <<>>, None, result_text) >>

\* the two entries appended for a call: the assistant message with the tool
\* call, then the tool response
tool_entries(call_info, result_text) ==
    << Entry("assistant", <<call_info.id>>, None, None),
       Entry("tool", <<>>, call_info.id, result_text) >>

\* await self.mcp_client.call_tool(fn_name, fn_args) and the extraction of
\* the result text; outcome "error": call_tool (or the extraction) raises.
\* PostgreSQLAgent catches the exception and makes a result text of it,
\* DialogueAgent has no handler: the exception leaves run()
call_tool(a, fn_name, outcome) ==
    IF outcome = "ok"
    THEN [raised |-> FALSE, result_text |-> Rows]
    ELSE IF a = PostgreSQLAgent
    THEN [raised |-> FALSE, result_text |-> ErrorText(fn_name, ToolError)]
    ELSE [raised |-> TRUE, result_text |-> None]

\* variant: the calls of a round are all sent when the round starts
start_calls_gather(calls, i) ==
    IF i = 1 THEN {calls[j].id : j \in DOMAIN calls} ELSE {}

\* the invocations sent when the for loop reaches its i-th call
start_calls(calls, i) == {calls[i].id}

\* truthiness of msg.content
Truthy(content) == content # None /\ content # Empty

\* after the for loop: PostgreSQLAgent appends the model's text if any
after_calls(a, m) ==
    IF a = PostgreSQLAgent /\ Truthy(m.content)
    THEN <<AssistantEntry(m.content)>>
    ELSE <<>>

\* the entries and logs are observed for the first MaxRounds rounds; the
\* loop itself goes on beyond them
Observed == completions <= MaxRounds
observe(log, entries) == IF Observed THEN log \o entries ELSE log

\* what the model may answer to the n-th completion call
CallIds(n, k) == [i \in 1..k |-> [id |-> <<n, i>>, name |-> ToolName]]
ModelResponses(n) ==
    {[finish_reason |-> "tool_calls", tool_calls |-> CallIds(n, k), content |-> c] :
        k \in 0..MaxCalls, c \in {None, Text}}
    \cup {[finish_reason |-> "stop", tool_calls |-> <<>>, content |-> c] :
        c \in {None, Empty, Text}}

InitRunOnly ==
    /\ pc = "run"
    /\ InitSession
    /\ max_turns_arg = DefaultMaxTurns
    /\ InitInvoke
    /\ InitManager
    /\ InitRegistry
    /\ InitRun
    /\ InitChannel
    /\ InitOrchestrator

\* agent.run(...): the tools are fetched and the list starts with the prompt
Run(a) ==
    /\ run_pc = "idle"
    /\ agent' = a
    /\ run_messages' = <<UserEntry(Prompt)>>
    /\ run_pc' = "loop"
    /\ UNCHANGED <<msg, completions, completion_in_flight, in_flight, invoked,
                   executed, tool_outcome, printed, responses, run_error>>
    /\ UNCHANGED <<sessionVars, policyVars, invokeVars, managerVars, registryVars,
                   channelVars, orchestratorVars>>

\* response = await self.client.chat.completions.create(...): sent
CompletionCall ==
    /\ run_pc = "loop"
    /\ run_pc' = "completing"
    /\ completion_in_flight' = TRUE
    /\ completions' = IF Observed THEN completions + 1 ELSE completions
    /\ invoked' = <<>>
    /\ tool_outcome' = None
    /\ UNCHANGED <<agent, run_messages, msg, in_flight, executed, printed, responses,
                   run_error>>
    /\ UNCHANGED <<sessionVars, policyVars, invokeVars, managerVars, registryVars,
                   channelVars, orchestratorVars>>

\* variant: a tool_calls response without calls falls through to the final
\* print
after_response_final(m) ==
    IF m.finish_reason = "tool_calls" /\ m.tool_calls # <<>> THEN "calling"
    ELSE "done"

\* where run() goes with the response m: into the for loop, out of the
\* while loop by the `break` of an empty tool_calls, or to the final print
after_response(m) ==
    IF m.finish_reason = "tool_calls"
    THEN IF m.tool_calls = <<>> THEN "exited" ELSE "calling"
    ELSE "done"

\* the completion call returns m: a final response is printed and run()
\* ends; a tool_calls response without calls ends run() with nothing
\* printed; otherwise the for loop starts and its first call is sent
CompletionReturn(m) ==
    /\ run_pc = "completing"
    /\ m \in ModelResponses(completions)
    /\ completion_in_flight' = FALSE
    /\ msg' = m
    /\ responses' = observe(responses, <<m>>)
    /\ run_pc' = after_response(m)
    /\ CASE run_pc' = "exited" -> UNCHANGED <<in_flight, invoked, printed>>
         [] run_pc' = "calling" ->
                 /\ in_flight' = start_calls(m.tool_calls, 1)
                 /\ invoked' = <<m.tool_calls[1].id>>
                 /\ UNCHANGED printed
         [] OTHER ->
                 /\ printed' = <<m.content>>
                 /\ UNCHANGED <<in_flight, invoked>>
    /\ UNCHANGED <<agent, run_messages, completions, executed, tool_outcome,
                   run_error>>
    /\ UNCHANGED <<sessionVars, policyVars, invokeVars, managerVars, registryVars,
                   channelVars, orchestratorVars>>

\* variant: a failed completion call is made again
on_completion_error_retry(a) == "loop"

\* where run() goes when the completion call raises: neither loop has a
\* handler around it, the exception leaves run()
on_completion_error(a) == "raised"

\* the completion call raises (transport or authentication error)
CompletionFails ==
    /\ run_pc = "completing"
    /\ run_pc' = on_completion_error(agent)
    /\ completion_in_flight' = FALSE
    /\ run_error' = "completion"
    /\ UNCHANGED <<agent, run_messages, msg, completions, in_flight, invoked,
                   executed, tool_outcome, printed, responses>>
    /\ UNCHANGED <<sessionVars, policyVars, invokeVars, managerVars, registryVars,
                   channelVars, orchestratorVars>>

\* the call_tool in flight returns or raises; its two entries are appended
\* and the next call of the round is sent, or, after the last call, the
\* loop goes back to the completion call
ToolReturn(outcome) ==
    /\ run_pc = "calling"
    /\ LET i == Len(invoked)
           call_info == msg.tool_calls[i]
           r == call_tool(agent, call_info.name, outcome)
       IN  /\ tool_outcome' = outcome
           /\ IF r.raised
              THEN /\ run_pc' = "raised"
                   /\ run_error' = "tool"
                   /\ in_flight' = in_flight \ {call_info.id}
                   /\ UNCHANGED <<run_messages, invoked, executed>>
              ELSE /\ run_error' = run_error
                   /\ executed' = observe(executed, <<call_info.id>>)
                   /\ IF i < Len(msg.tool_calls)
                      THEN /\ run_messages' = observe(run_messages,
                                                  tool_entries(call_info, r.result_text))
                           /\ in_flight' = (in_flight \ {call_info.id})
                                               \cup start_calls(msg.tool_calls, i + 1)
                           /\ invoked' = Append(invoked, msg.tool_calls[i + 1].id)
                           /\ run_pc' = "calling"
                      ELSE /\ run_messages' = observe(run_messages,
                                                  tool_entries(call_info, r.result_text)
                                                    \o after_calls(agent, msg))
                           /\ in_flight' = in_flight \ {call_info.id}
                           /\ invoked' = invoked
                           /\ run_pc' = "loop"
    /\ UNCHANGED <<agent, msg, completions, completion_in_flight, printed, responses>>
    /\ UNCHANGED <<sessionVars, policyVars, invokeVars, managerVars, registryVars,
                   channelVars, orchestratorVars>>

NextRun ==
    \/ \E a \in Agents : Run(a)
    \/ CompletionCall
    \/ \E m \in ModelResponses(completions) : CompletionReturn(m)
    \/ CompletionFails
    \/ \E outcome \in {"ok", "error"} : ToolReturn(outcome)

SpecRun == InitRunOnly /\ [][NextRun]_vars

\* every awaited call returns or raises: no step is postponed forever
FairSpecRun == InitRunOnly /\ [][NextRun]_vars /\ WF_vars(NextRun)

(***************************************************************************)
(* The two message lists of the program: a process runs either             *)
(* process_query (autogen_agent.py), which collects the chat's messages,   *)
(* or a tool-calling loop (client.py), which keeps the running list.       *)
(***************************************************************************)
InitTranscripts == InitQuery \/ InitRunOnly

NextTranscripts ==
    \/ Next
    \/ pc = "run" /\ NextRun

SpecTranscripts == InitTranscripts /\ [][NextTranscripts]_vars

(***************************************************************************)
(* MCPClient (client.py lines 13-93): connect(), the two request methods   *)
(* and __aexit__.  A connect() call goes through three awaits: the         *)
(* transport's __aenter__, the session's __aenter__ and initialize().      *)
(* The request counters count the requests of direct MCPClient calls.      *)
(***************************************************************************)
Connecting == {"starting", "entering", "initializing"}

\* some connect() call has completed
Ready == \E t \in Callers : conn_pc[t] = "done"

\* await mcp_client.connect(): self._client = stdio_client(...) and the
\* transport's __aenter__ is awaited
ConnectCall(t) ==
    /\ conn_pc[t] = "idle"
    /\ \A u \in Callers : u < t => conn_pc[u] # "idle"
    /\ _client' = t
    /\ conn_pc' = [conn_pc EXCEPT ![t] = "starting"]
    /\ last_call' = [op |-> "connect", raised |-> None, ready |-> Ready]
    /\ UNCHANGED <<session, started, entered, handshakes, list_requests,
                   tool_requests, session_releases, transport_releases,
                   channel_ops, exit_path>>
    /\ UNCHANGED <<sessionVars, policyVars, invokeVars, managerVars, registryVars, runVars,
                   orchestratorVars>>

\* the transport is started (self.read, self.write are set); a
\* ClientSession is created on it and its __aenter__ is awaited
TransportStarted(t) ==
    /\ conn_pc[t] = "starting"
    /\ started' = started \cup {t}
    /\ conn_pc' = [conn_pc EXCEPT ![t] = "entering"]
    /\ UNCHANGED <<session, _client, entered, handshakes, list_requests,
                   tool_requests, session_releases, transport_releases,
                   channel_ops, last_call, exit_path>>
    /\ UNCHANGED <<sessionVars, policyVars, invokeVars, managerVars, registryVars, runVars,
                   orchestratorVars>>

\* self.session = await session.__aenter__(), then initialize() is sent
SessionEntered(t) ==
    /\ conn_pc[t] = "entering"
    /\ entered' = entered \cup {t}
    /\ session' = t
    /\ handshakes' = handshakes + 1
    /\ conn_pc' = [conn_pc EXCEPT ![t] = "initializing"]
    /\ UNCHANGED <<_client, started, list_requests, tool_requests,
                   session_releases, transport_releases, channel_ops,
                   last_call, exit_path>>
    /\ UNCHANGED <<sessionVars, policyVars, invokeVars, managerVars, registryVars, runVars,
                   orchestratorVars>>

\* initialize() returns: connect() returns
Initialized(t) ==
    /\ conn_pc[t] = "initializing"
    /\ conn_pc' = [conn_pc EXCEPT ![t] = "done"]
    /\ UNCHANGED <<session, _client, started, entered, handshakes, list_requests,
                   tool_requests, session_releases, transport_releases,
                   channel_ops, last_call, exit_path>>
    /\ UNCHANGED <<sessionVars, policyVars, invokeVars, managerVars, registryVars, runVars,
                   orchestratorVars>>

\* the awaited call of connect() raises: connect() has no handler, the
\* exception leaves it with the fields as they are
ConnectFails(t) ==
    /\ conn_pc[t] \in Connecting
    /\ conn_pc' = [conn_pc EXCEPT ![t] = "failed"]
    /\ UNCHANGED <<session, _client, started, entered, handshakes, list_requests,
                   tool_requests, session_releases, transport_releases,
                   channel_ops, last_call, exit_path>>
    /\ UNCHANGED <<sessionVars, policyVars, invokeVars, managerVars, registryVars, runVars,
                   orchestratorVars>>

\* variant: the request is sent whatever the session
request_unguarded(sess) == [raised |-> None, sent |-> 1]

\* get_available_tools / call_tool: RuntimeError when self.session is not
\* set, otherwise one request to the host
request(sess) ==
    IF sess = NoObject
    THEN [raised |-> "RuntimeError", sent |-> 0]
    ELSE [raised |-> None, sent |-> 1]

\* await mcp_client.get_available_tools() (also through get_openai_tools)
GetAvailableTools ==
    /\ channel_ops < MaxChannelOps
    /\ list_requests' = list_requests + request(session).sent
    /\ last_call' = [op |-> "get_available_tools",
                     raised |-> request(session).raised, ready |-> Ready]
    /\ channel_ops' = channel_ops + 1
    /\ UNCHANGED <<session, _client, conn_pc, started, entered, handshakes,
                   tool_requests, session_releases, transport_releases, exit_path>>
    /\ UNCHANGED <<sessionVars, policyVars, invokeVars, managerVars, registryVars, runVars,
                   orchestratorVars>>

\* await mcp_client.call_tool(tool_name, arguments)
CallTool ==
    /\ channel_ops < MaxChannelOps
    /\ tool_requests' = tool_requests + request(session).sent
    /\ last_call' = [op |-> "call_tool",
                     raised |-> request(session).raised, ready |-> Ready]
    /\ channel_ops' = channel_ops + 1
    /\ UNCHANGED <<session, _client, conn_pc, started, entered, handshakes,
                   list_requests, session_releases, transport_releases, exit_path>>
    /\ UNCHANGED <<sessionVars, policyVars, invokeVars, managerVars, registryVars, runVars,
                   orchestratorVars>>

\* variant: the transport is released only when the block ends normally
__aexit___normal_only(sess, cl, exc_type) ==
    [session |-> sess # NoObject, transport |-> cl # NoObject /\ exc_type = None]

\* __aexit__(exc_type, ...): what it releases: the session if self.session
\* is set, then the transport if self._client is set
__aexit__(sess, cl, exc_type) ==
    [session |-> sess # NoObject, transport |-> cl # NoObject]

\* the effect of one __aexit__ call on the release counts
Release(exc_type) ==
    LET r == __aexit__(session, _client, exc_type)
    IN  /\ session_releases' = IF r.session
                               THEN [session_releases EXCEPT ![session] = @ + 1]
                               ELSE session_releases
        /\ transport_releases' = IF r.transport
                                 THEN [transport_releases EXCEPT ![_client] = @ + 1]
                                 ELSE transport_releases

\* await mcp_client.__aexit__(None, None, None), called directly
AExit ==
    /\ channel_ops < MaxChannelOps
    /\ Release(None)
    /\ last_call' = [op |-> "__aexit__", raised |-> None, ready |-> Ready]
    /\ channel_ops' = channel_ops + 1
    /\ UNCHANGED <<session, _client, conn_pc, started, entered, handshakes,
                   list_requests, tool_requests, exit_path>>
    /\ UNCHANGED <<sessionVars, policyVars, invokeVars, managerVars, registryVars, runVars,
                   orchestratorVars>>

InitChannelOnly ==
    /\ pc = "channel"
    /\ InitSession
    /\ max_turns_arg = DefaultMaxTurns
    /\ InitInvoke
    /\ InitManager
    /\ InitRegistry
    /\ InitRun
    /\ InitChannel
    /\ InitOrchestrator

\* one MCPClient used by tasks that call its methods in any order
NextChannel ==
    \/ \E t \in Callers : ConnectCall(t)
    \/ \E t \in Callers : TransportStarted(t)
    \/ \E t \in Callers : SessionEntered(t)
    \/ \E t \in Callers : Initialized(t)
    \/ \E t \in Callers : ConnectFails(t)
    \/ GetAvailableTools
    \/ CallTool
    \/ AExit

SpecChannel == InitChannelOnly /\ [][NextChannel]_vars

(***************************************************************************)
(* call_tool called by several tasks on one MCPClient (client.py lines     *)
(* 78-93).  The call tests self.session, hands the request to the session  *)
(* and suspends at `await self.session.call_tool(...)` until the response  *)
(* to that request arrives.  While a task is suspended the event loop runs *)
(* the other tasks; the host answers a request by its identifier.          *)
(***************************************************************************)
Sent(t) == [dir |-> "request", call |-> t]
Received(t) == [dir |-> "response", call |-> t]

\* a task calls call_tool: RuntimeError when self.session is not set,
\* otherwise the request is sent and the task suspends; no lock is taken,
\* so the call does not wait for the other tasks' calls
CallToolSend(t) ==
    /\ call_pc[t] # "awaiting"
    /\ channel_ops < MaxChannelOps
    /\ LET r == request(session)
       IN  /\ call_pc' = [call_pc EXCEPT ![t] = IF r.sent = 1 THEN "awaiting"
                                                ELSE "raised"]
           /\ wire' = IF r.sent = 1 THEN Append(wire, Sent(t)) ELSE wire
           /\ tool_requests' = tool_requests + r.sent
           /\ last_call' = [op |-> "call_tool", raised |-> r.raised,
                            ready |-> Ready]
    /\ channel_ops' = channel_ops + 1
    /\ UNCHANGED <<session, _client, conn_pc, started, entered, handshakes,
                   list_requests, session_releases, transport_releases, exit_path>>
    /\ UNCHANGED <<sessionVars, policyVars, managerVars, registryVars, runVars,
                   orchestratorVars>>

\* the response to a task's request arrives: the await returns the result
\* or raises the failure
CallToolReceive(t, outcome) ==
    /\ call_pc[t] = "awaiting"
    /\ call_pc' = [call_pc EXCEPT ![t] = IF outcome = "ok" THEN "returned"
                                          ELSE "raised"]
    /\ wire' = Append(wire, Received(t))
    /\ UNCHANGED <<sessionVars, policyVars, managerVars, registryVars, runVars,
                   channelVars, orchestratorVars>>

InitInvokeOnly ==
    /\ pc = "invoke"
    /\ InitSession
    /\ max_turns_arg = DefaultMaxTurns
    /\ InitInvoke
    /\ InitManager
    /\ InitRegistry
    /\ InitRun
    /\ InitChannel
    /\ InitOrchestrator

\* one MCPClient: one connect(), and tasks that call call_tool at any time
NextInvoke ==
    \/ ConnectCall(1)
    \/ TransportStarted(1)
    \/ SessionEntered(1)
    \/ Initialized(1)
    \/ \E t \in Callers : CallToolSend(t)
    \/ \E t \in Callers, outcome \in {"ok", "error"} : CallToolReceive(t, outcome)

SpecInvoke == InitInvokeOnly /\ [][NextInvoke]_vars

(***************************************************************************)
(* main (client.py lines 387-389, 413-415):                                *)
(*     async with MCPClient(server_params) as mcp_client:                  *)
(*         await agent.run(...)                                            *)
(* __aenter__ is connect(); the block is the tool-calling loop; __aexit__  *)
(* runs when the block is left, whatever leaves it.  When __aenter__       *)
(* raises the block is not entered and __aexit__ is not run.               *)
(***************************************************************************)
InBlock == conn_pc[1] = "done" /\ exit_path = None

\* the task is cancelled while run() awaits a completion or a tool
CancelRun ==
    /\ InBlock
    /\ run_pc \in {"completing", "calling"}
    /\ run_pc' = "cancelled"
    /\ run_error' = "cancelled"
    /\ completion_in_flight' = FALSE
    /\ in_flight' = {}
    /\ UNCHANGED <<agent, run_messages, msg, completions, invoked, executed,
                   tool_outcome, printed, responses>>
    /\ UNCHANGED <<sessionVars, policyVars, invokeVars, managerVars, registryVars,
                   channelVars, orchestratorVars>>

\* exc_type given to __aexit__
exc_type_of(error) ==
    CASE error = None -> None
      [] error = "cancelled" -> "CancelledError"
      [] OTHER -> "Exception"

\* the block is left: run() returned, raised or was cancelled
BlockExit ==
    /\ InBlock
    /\ run_pc \in {"done", "exited", "raised", "cancelled"}
    /\ Release(exc_type_of(run_error))
    /\ exit_path' = IF run_error = None THEN "normal" ELSE run_error
    /\ UNCHANGED <<session, _client, conn_pc, started, entered, handshakes,
                   list_requests, tool_requests, channel_ops, last_call>>
    /\ UNCHANGED <<sessionVars, policyVars, invokeVars, managerVars, registryVars, runVars,
                   orchestratorVars>>

InitBlock ==
    /\ pc = "block"
    /\ InitSession
    /\ max_turns_arg = DefaultMaxTurns
    /\ InitInvoke
    /\ InitManager
    /\ InitRegistry
    /\ InitRun
    /\ InitChannel
    /\ InitOrchestrator

NextBlock ==
    \/ ConnectCall(1)
    \/ TransportStarted(1)
    \/ SessionEntered(1)
    \/ Initialized(1)
    \/ ConnectFails(1)
    \/ \E a \in Agents : InBlock /\ Run(a)
    \/ InBlock /\ CompletionCall
    \/ \E m \in ModelResponses(completions) : InBlock /\ CompletionReturn(m)
    \/ InBlock /\ CompletionFails
    \/ \E outcome \in {"ok", "error"} : InBlock /\ ToolReturn(outcome)
    \/ CancelRun
    \/ BlockExit

SpecBlock == InitBlock /\ [][NextBlock]_vars

(***************************************************************************)
(* The caller's loop of test_autogen.py (lines 26-39): each query is       *)
(* handed to process_query and its response awaited before the next one.   *)
(* The loop goes through AgentSelector.process_query, which the            *)
(* repository does not contain: it is taken to run process_query of        *)
(* autogen_agent.py for the query, as the Session Orchestrator is          *)
(* described.                                                              *)
(***************************************************************************)
\* variant: the list of collected lines outlives the call
process_query_entry_keeps_messages ==
    /\ messages' = messages
    /\ result' = Running
    /\ all_agents' = <<>>
    /\ planner_knows' = <<>>
    /\ thread' = <<>>
    /\ selections' = 0
    /\ turns' = 0
    /\ failure' = None

\* a call of process_query starts with its own locals: model client,
\* roster, chat and `messages` are created inside the call
process_query_entry ==
    /\ messages' = <<>>
    /\ result' = Running
    /\ all_agents' = <<>>
    /\ planner_knows' = <<>>
    /\ thread' = <<>>
    /\ selections' = 0
    /\ turns' = 0
    /\ failure' = None

\* agent_selector.process_query(query)
AgentSelector_process_query ==
    /\ process_query_entry
    /\ pc' = "start"

\* the query being processed
CurrentQuery == submitted[Len(submitted)]

\* for query in queries: response = await agent_selector.process_query(query)
Submit ==
    /\ pc = "idle"
    /\ pending # <<>>
    /\ AgentSelector_process_query
    /\ submitted' = Append(submitted, Head(pending))
    /\ pending' = Tail(pending)
    /\ sessions_in_flight' = sessions_in_flight + 1
    /\ UNCHANGED answers
    /\ UNCHANGED <<policyVars, invokeVars, managerVars, registryVars, runVars, channelVars>>

\* the awaited call returns its response, which is printed, and the loop
\* goes on; or it raises, which leaves the loop
Collect ==
    /\ pc = "done"
    /\ sessions_in_flight' = sessions_in_flight - 1
    /\ IF result.status = "returned"
       THEN /\ answers' = Append(answers, result.value)
            /\ pc' = "idle"
       ELSE /\ answers' = answers
            /\ pc' = "aborted"
    /\ UNCHANGED <<pending, submitted>>
    /\ UNCHANGED <<messages, result, all_agents, planner_knows, thread,
                   selections, turns, failure>>
    /\ UNCHANGED <<policyVars, invokeVars, managerVars, registryVars, runVars, channelVars>>

RECURSIVE QueryLists(_)
QueryLists(n) ==
    IF n = 0 THEN {<<>>}
    ELSE {<<q>> \o l : q \in Queries, l \in QueryLists(n - 1)}

InitSessions ==
    /\ pc = "idle"
    /\ InitSession
    /\ max_turns_arg = DefaultMaxTurns
    /\ InitInvoke
    /\ InitManager
    /\ InitRegistry
    /\ InitRun
    /\ InitChannel
    /\ pending \in UNION {QueryLists(n) : n \in 1..MaxQueries}
    /\ submitted = <<>>
    /\ answers = <<>>
    /\ sessions_in_flight = 0

NextSessions ==
    \/ Submit
    \/ CreateModelClient
    \/ \E dt \in DialogueFetch, pt \in PostgresFetch : InitializeAgents(dt, pt)
    \/ submitted # <<>> /\ RunStream(CurrentQuery)
    \/ \E name \in {Planner, "formatter_agent"},
          content \in {FortyTwo, Keyword} : AgentTurn(name, content)
    \/ ChatStop
    \/ \E e \in Raisable : SetupFails(e)
    \/ \E e \in Raisable : SelectionFails(e)
    \/ \E e \in Raisable : TurnFails(e)
    \/ Collect

SpecSessions == InitSessions /\ [][NextSessions]_vars

(***************************************************************************)
(* Properties of process_query                                             *)
(***************************************************************************)
NonPlanner(th) == {i \in DOMAIN th : th[i].source # Planner}
LastNonPlanner(th) ==
    th[CHOOSE i \in NonPlanner(th) : \A j \in NonPlanner(th) : j <= i]

ExampleTranscript ==
    << [source |-> User, content |-> Q],
       [source |-> Planner, content |-> Planning],
       [source |-> "formatter_agent", content |-> FortyTwo],
       [source |-> Planner, content |-> Keyword] >>

\* C1 as stated: with a non-planner message in the transcript, the answer is
\* the content of the last non-planner message, verbatim
C1_AnswerIsLastNonPlannerContent ==
    (pc = "done" /\ thread # <<>> /\ NonPlanner(thread) # {})
        => result = Returned(LastNonPlanner(thread).content)

\* C1 amended: the answer is the content of the last non-planner message
\* with its leading and trailing whitespace removed
C1_AnswerIsStrippedLastNonPlannerContent ==
    (pc = "done" /\ thread # <<>> /\ NonPlanner(thread) # {})
        => result = Returned(strip(LastNonPlanner(thread).content))

C1_Witness ==
    pc = "done" /\ thread = ExampleTranscript /\ result = Returned(FortyTwo)

\* C2: an empty stream makes process_query return the "No response
\* generated" sentinel as a normal return value
C2_EmptyTranscriptSentinel ==
    (pc = "done" /\ thread = <<>>) => result = Returned(NoResponse)

C2_Witness ==
    pc = "done" /\ messages = <<>> /\ result = Returned(NoResponse)

\* C3 as stated: whatever fails, cancellation included, process_query
\* returns a string and nothing propagates
C3_NeverPropagates ==
    pc = "done" => result.status = "returned"

\* C3 amended: a failure that is an Exception is turned into the returned
\* string "Error processing your query: ..."; the only thing that leaves
\* process_query as an exception is a cancellation (CancelledError)
C3_ExceptionsBecomeErrorString ==
    /\ (pc = "done" /\ failure # None /\ IsException(failure))
          => result = Returned(<<ErrorPrefix, failure>>)
    /\ (pc = "done" /\ result.status = "raised")
          => failure = "CancelledError"
    /\ (pc = "done" /\ failure = None) => result.status = "returned"

C3_Witness ==
    /\ pc = "done" /\ failure = "RuntimeError" /\ turns > 0
    /\ result.status = "returned" /\ result.value[1] = ErrorPrefix

(***************************************************************************)
(* Properties of the termination policy                                    *)
(***************************************************************************)
\* the policy as the claims word it: keyword in the latest message, or the
\* number of messages has reached max
Fires(th, max) ==
    th # <<>> /\ (Contains(th[Len(th)].content, Keyword) \/ Len(th) >= max)

\* C4: the session goes on (next selection and turn) only while the policy has not
\* fired on the thread; once it has fired the chat is stopped and no
\* message, selection or turn follows
C4_StopsAsSoonAsPolicyFires ==
    /\ [](pc = "select" => ~Fires(thread, DefaultMaxTurns))
    /\ [](pc = "stopped" => Fires(thread, DefaultMaxTurns))
    /\ [][Fires(thread, DefaultMaxTurns) =>
            thread' = thread /\ selections' = selections /\ turns' = turns]_vars

C4_Witness ==
    /\ pc = "done" /\ Len(thread) = 3 /\ turns = 2
    /\ Contains(thread[3].content, Keyword)

\* C5: with max_turns = 15 the transcript never holds more than 15 messages
\* and every session ends, keyword or not
C5_AtMostMaxTurnsAndEnds ==
    /\ [](Len(thread) <= DefaultMaxTurns /\ Len(messages) <= DefaultMaxTurns)
    /\ <>(pc = "done")

C5_Witness ==
    /\ pc = "done" /\ Len(messages) = DefaultMaxTurns
    /\ ~TextMentionTermination(thread, Keyword)
    /\ result.status = "returned"

\* C6: once the policy holds (it fired on the latest message or on the
\* count), it holds on every continuation of the transcript
PolicyHolds == create_termination_condition(thread, Keyword, max_turns_arg)

Materialized == called \in {"initialize_agents", "create_chat"}

\* the kinds whose worker was constructed in the last materialization
Constructed == {k \in DOMAIN outcomes : outcomes[k] = "agent"}
\* the name of the agent a kind's creation function builds
KindName(k) ==
    IF k \in DOMAIN agent_types THEN AgentName(agent_types[k].function) ELSE k
ConstructedNames == {KindName(k) : k \in Constructed}

PlannerCount(r) == Cardinality({i \in DOMAIN r : r[i] = Planner})

\* C7: a roster with at least one worker holds exactly one planner, and the
\* planner is its last element (AgentManager and autogen_agent alike)
C7_ExactlyOnePlannerLast ==
    /\ (Materialized /\ roster # <<>>)
          => roster[Len(roster)] = Planner /\ PlannerCount(roster) = 1
    /\ all_agents # <<>>
          => all_agents[Len(all_agents)] = Planner /\ PlannerCount(all_agents) = 1

\* C8: the names handed to the planner are exactly the names of the workers
\* constructed in this materialization
C8_PlannerKnowsConstructedWorkers ==
    /\ (Materialized /\ roster # <<>> /\ roster[Len(roster)] = Planner)
          => /\ Range(planner_args) = ConstructedNames
             /\ Range(planner_args) = Range(roster) \ {Planner}
    /\ all_agents # <<>>
          => Range(planner_knows) = Range(all_agents) \ {Planner}

C8_Witness ==
    /\ called = "initialize_agents"
    /\ outcomes = [k \in {"dialogue_agent", "postgres_agent"} |->
                     IF k = "dialogue_agent" THEN "raises" ELSE "agent"]
    /\ planner_args = <<"postgres_agent">>
    /\ roster = <<"postgres_agent", Planner>>

\* C9: with no worker constructed the roster is empty, no planner is
\* constructed, create_chat returns None and no model call has been made
C9_NoAgentsAvailable ==
    (Materialized /\ Constructed = {})
        => /\ roster = <<>>
           /\ planner_args = <<>>
           /\ called = "create_chat" => chat = None
           /\ selections = 0 /\ turns = 0

C9_Witness ==
    /\ called = "create_chat" /\ chat = None /\ roster = <<>>
    /\ DOMAIN outcomes = {"dialogue_agent", "postgres_agent"}
    /\ outcomes["dialogue_agent"] = "load_fails"
    /\ outcomes["postgres_agent"] = "returns_none"

\* C10: a kind that fails to load or to construct is left out, every kind
\* that constructs is in the roster, and the call itself does not fail
C10_FailureIsolation ==
    Materialized
        => /\ ~aborted
           /\ \A k \in DOMAIN outcomes :
                 /\ (outcomes[k] = "agent")
                      <=> (KindName(k) \in Range(roster))
                 /\ outcomes[k] = "agent" => k \in available_agents

C10_Witness ==
    /\ called = "initialize_agents"
    /\ DOMAIN outcomes = {"dialogue_agent", "postgres_agent", "formatter_agent"}
    /\ outcomes["dialogue_agent"] = "raises"
    /\ outcomes["postgres_agent"] = "returns_none"
    /\ outcomes["formatter_agent"] = "agent"
    /\ roster = <<"formatter_agent", Planner>>

(***************************************************************************)
(* Properties of the registry and of the enablement map                    *)
(***************************************************************************)
\* the step is a call of _load_agent_function
Resolves == called' = "_load_agent_function" /\ ops' = ops + 1

\* C11: a resolve whose import fails leaves the entry with loaded = FALSE
\* and create_fn = None, and every resolve of a registered kind whose import
\* succeeds returns the constructor: after a failure the load is performed
\* again (one more import) and its success is returned and cached.
C11_FailureNotCached ==
    [][Resolves =>
         LET k == args'.agent_type
         IN  /\ (k \in DOMAIN agent_types /\ args'.returned = None)
                    => /\ agent_types'[k].loaded = FALSE
                       /\ agent_types'[k].create_fn = None
                       /\ agent_types' = agent_types
             /\ (k \in DOMAIN agent_types /\ args'.import_ok)
                    => /\ args'.returned # None
                       /\ agent_types'[k].loaded
                       /\ agent_types'[k].create_fn = args'.returned
             /\ (/\ called = "_load_agent_function"
                 /\ args.agent_type = k /\ args.returned = None
                 /\ k \in DOMAIN agent_types /\ args'.import_ok)
                    => loads'[k] = loads[k] + 1]_vars

\* a kind failed to load in the first call and was loaded by the second
C11_Witness ==
    /\ called = "_load_agent_function"
    /\ ops = 2
    /\ args.agent_type = "dialogue_agent"
    /\ args.returned = "create_dialogue_agent"
    /\ loads["dialogue_agent"] = 2

\* C12: once a resolve of a kind has returned a constructor, and until the
\* kind is registered again, every resolve of that kind returns that same
\* constructor, performs no import and leaves the registry as it is.
C12_ResolveIsCached ==
    [][\A k \in Kinds :
         (Resolves /\ args'.agent_type = k /\ resolved[k] # None)
            => /\ args'.returned = resolved[k]
               /\ loads'[k] = loads[k]
               /\ agent_types' = agent_types]_vars

\* a resolve was answered from the cache although an import would have failed
C12_Witness ==
    /\ called = "_load_agent_function"
    /\ args.agent_type = "dialogue_agent"
    /\ ~args.import_ok
    /\ args.returned = "create_dialogue_agent"
    /\ loads["dialogue_agent"] = 1

\* C13: register_agent_type(kind, module, function, enabled) leaves the
\* kind's entry as (module, function, loaded = FALSE, create_fn = None)
\* whether the kind is new or not, sets its enablement to the flag, performs
\* no import, and changes no other kind's entry or enablement.
C13_RegisterFrame ==
    [][(called' = "register_agent_type" /\ ops' = ops + 1) =>
         LET k == args'.agent_name
         IN  /\ DOMAIN agent_types' = DOMAIN agent_types \cup {k}
             /\ agent_types'[k] = [module |-> args'.module_path,
                                   function |-> args'.function_name,
                                   loaded |-> FALSE, create_fn |-> None]
             /\ DOMAIN agent_config' = DOMAIN agent_config \cup {k}
             /\ agent_config'[k] = args'.enabled
             /\ \A j \in DOMAIN agent_types \ {k} : agent_types'[j] = agent_types[j]
             /\ \A j \in DOMAIN agent_config \ {k} : agent_config'[j] = agent_config[j]
             /\ loads' = loads]_vars

\* a loaded, enabled kind was registered again, disabled
C13_Witness ==
    /\ called = "register_agent_type"
    /\ args.agent_name = "dialogue_agent"
    /\ ~args.enabled
    /\ loads["dialogue_agent"] = 1
    /\ ~agent_types["dialogue_agent"].loaded
    /\ ~agent_config["dialogue_agent"]

\* the enablement a config gives to a kind it mentions
Given(config, k) ==
    config[CHOOSE i \in DOMAIN config : config[i].kind = k].enabled

ConfigKeys(config) == {config[i].kind : i \in DOMAIN config}

\* C14: after configure_agents(config) every kind of config has the
\* enablement config gives it, every other kind keeps its enablement, and the
\* registry entries, the cached agents and the roster returned earlier are
\* unchanged.
C14_ConfigureMerges ==
    [][(called' = "configure_agents" /\ ops' = ops + 1) =>
         /\ DOMAIN agent_config' = DOMAIN agent_config \cup ConfigKeys(args')
         /\ \A k \in ConfigKeys(args') : agent_config'[k] = Given(args', k)
         /\ \A k \in DOMAIN agent_config \ ConfigKeys(args') :
                agent_config'[k] = agent_config[k]
         /\ agent_types' = agent_types
         /\ roster' = roster
         /\ planner_args' = planner_args
         /\ available_agents' = available_agents
         /\ chat' = chat]_vars

\* a roster with dialogue_agent was returned, then dialogue_agent was
\* disabled and formatter_agent enabled
C14_Witness ==
    /\ called = "configure_agents"
    /\ Len(args) = 2
    /\ agent_config["formatter_agent"]
    /\ ~agent_config["dialogue_agent"]
    /\ agent_config["postgres_agent"]
    /\ roster # <<>>
    /\ roster[1] = "dialogue_agent"
    /\ agent_types["dialogue_agent"].loaded

(***************************************************************************)
(* Properties of the tool-calling loops                                    *)
(***************************************************************************)
\* the call whose invocation ended last
LastEnded ==
    IF run_pc = "calling" THEN invoked[Len(invoked) - 1] ELSE invoked[Len(invoked)]

Terminal == {"done", "exited", "raised"}

\* C15 as stated: after a failed tool invocation run() has not been left,
\* a tool-result entry with an error description is in the list for that
\* call, and the loop is at the next call of the round or back at the
\* completion call.
C15_ToolErrorRecovery ==
    tool_outcome = "error" =>
        /\ run_pc \in {"calling", "loop", "completing"}
        /\ Observed =>
              \E i \in DOMAIN run_messages :
                 /\ run_messages[i].role = "tool"
                 /\ run_messages[i].tool_call_id = LastEnded
                 /\ run_messages[i].content = ErrorText(ToolName, ToolError)

\* C16: at most one tool invocation is in flight, none while a completion
\* call is in flight, and the invocations of a round are started in the
\* order of msg.tool_calls, each after the previous one has ended.
C16_SequentialToolExecution ==
    /\ Cardinality(in_flight) <= 1
    /\ ~(completion_in_flight /\ in_flight # {})
    /\ completion_in_flight <=> run_pc = "completing"
    /\ run_pc = "calling" =>
          /\ Len(invoked) \in 1..Len(msg.tool_calls)
          /\ \A i \in DOMAIN invoked : invoked[i] = msg.tool_calls[i].id
          /\ in_flight = {invoked[Len(invoked)]}
    /\ run_pc # "calling" => in_flight = {}

\* the second call of a round is in flight after the first one failed
C16_Witness ==
    /\ agent = PostgreSQLAgent
    /\ run_pc = "calling"
    /\ Len(invoked) = 2
    /\ in_flight = {<<1, 2>>}
    /\ tool_outcome = "error"

\* identifiers of the tool-result entries of a list, in order
RECURSIVE ResultIds(_)
ResultIds(l) ==
    IF l = <<>> THEN <<>>
    ELSE IF Head(l).role = "tool"
    THEN <<Head(l).tool_call_id>> \o ResultIds(Tail(l))
    ELSE ResultIds(Tail(l))

\* a call identifier <<round, position>> comes before another
Before(x, y) == x[1] < y[1] \/ (x[1] = y[1] /\ x[2] < y[2])

\* C17: every tool-result entry directly follows the request entry with its
\* identifier, which is the only request with that identifier; every
\* request entry is directly followed by its result; and the pairs are those
\* of the calls whose result text was obtained, in call order.
C17_LinkedRequestResult ==
    /\ \A i \in DOMAIN run_messages :
          run_messages[i].role = "tool" =>
             /\ i > 1
             /\ run_messages[i - 1].role = "assistant"
             /\ run_messages[i - 1].tool_calls = <<run_messages[i].tool_call_id>>
             /\ Cardinality({j \in DOMAIN run_messages :
                    run_messages[j].tool_calls = <<run_messages[i].tool_call_id>>}) = 1
    /\ \A i \in DOMAIN run_messages :
          run_messages[i].tool_calls # <<>> =>
             /\ i < Len(run_messages)
             /\ run_messages[i + 1].role = "tool"
             /\ <<run_messages[i + 1].tool_call_id>> = run_messages[i].tool_calls
    /\ ResultIds(run_messages) = executed
    /\ \A i, j \in DOMAIN executed : i < j => Before(executed[i], executed[j])

\* two calls of one round have their pairs in the list, the second one
\* with an error description
C17_Witness ==
    /\ agent = PostgreSQLAgent
    /\ executed = << <<1, 1>>, <<1, 2>> >>
    /\ tool_outcome = "error"
    /\ Len(run_messages) >= 5
    /\ run_messages[5].content = ErrorText(ToolName, ToolError)
    /\ run_messages[3].content = Rows

\* what run() leaves: its list, followed by the text it printed
Transcript ==
    run_messages \o (IF printed = <<>> THEN <<>> ELSE <<AssistantEntry(printed[1])>>)

OneToolCall(m) == m.finish_reason = "tool_calls" /\ Len(m.tool_calls) = 1
FinalText(m) == m.finish_reason = "stop" /\ m.content = Text

\* C18 as stated: when the first response requests one tool call, run() is
\* not left by an exception of the tool, and when the second response is a final text,
\* run() is done after two completion calls with the prompt, one
\* request/result pair and the final text, and nothing else.
C18_RoundTrip ==
    (responses # <<>> /\ OneToolCall(responses[1])) =>
        /\ run_pc = "raised" => run_error = "completion"
        /\ (Len(responses) >= 2 /\ FinalText(responses[2])) =>
              /\ run_pc = "done"
              /\ completions = 2
              /\ Len(Transcript) = 4
              /\ Transcript[1] = UserEntry(Prompt)
              /\ Transcript[2].tool_calls = << <<1, 1>> >>
              /\ Transcript[3].role = "tool"
              /\ Transcript[3].tool_call_id = <<1, 1>>
              /\ Transcript[4] = AssistantEntry(Text)

\* C19 as stated: the loop ends, whatever the model answers; a model that
\* requests tool calls in every response is stopped at a round limit.
C19_RoundCap == <>(run_pc \in Terminal)

\* C20 as stated: run() ends normally only after a completion call and
\* with a printed final text that is neither None nor empty.
C20_DoneGuarantee ==
    run_pc \in {"done", "exited"} =>
        /\ completions >= 1
        /\ printed # <<>>
        /\ Truthy(printed[1])

\* C21: once a completion call has raised, run() has been left with that
\* failure: no call is in flight, and from then on no completion call is
\* made, no tool is invoked and nothing is appended to the list.
C21_CompletionFailureIsFatal ==
    /\ [](run_error = "completion" =>
            /\ run_pc = "raised"
            /\ ~completion_in_flight
            /\ in_flight = {})
    /\ [][run_error' = "completion" =>
            /\ run_messages' = run_messages
            /\ executed' = executed
            /\ printed' = printed
            /\ run_error = "completion" =>
                  /\ completions' = completions
                  /\ invoked' = invoked]_vars

\* the completion call after a round of tool calls raised
C21_Witness ==
    /\ run_error = "completion"
    /\ run_pc = "raised"
    /\ completions = 2
    /\ Len(run_messages) = 3

(***************************************************************************)
(* Properties of MCPClient                                                 *)
(***************************************************************************)
\* C22 as stated: a connect() call made when a connect() has completed
\* returns at once and leaves the transport, the session and the number
\* of handshakes as they are.
C22_ConnectIdempotent ==
    [][\A t \in Callers :
         (Ready /\ conn_pc[t] = "idle" /\ conn_pc'[t] # "idle")
            => /\ conn_pc'[t] = "done"
               /\ _client' = _client
               /\ session' = session
               /\ started' = started
               /\ handshakes' = handshakes]_vars

\* C23 as stated: on one session the tool list is requested from the host
\* at most once, however many catalog calls are made.
C23_CatalogFetchedOnce ==
    Cardinality(entered) <= 1 => list_requests <= 1

\* C24 as stated: a get_available_tools or call_tool call made when no
\* connect() had completed raises the not-ready error (and so sends
\* nothing).
C24_NotReadyFails ==
    (last_call.op \in {"get_available_tools", "call_tool"} /\ ~last_call.ready)
        => last_call.raised = "RuntimeError"

\* C25 as stated: however many times __aexit__ is called, no session and
\* no transport is released more than once.
C25_CloseIdempotent ==
    \A t \in Callers : session_releases[t] <= 1 /\ transport_releases[t] <= 1

C29_HalfOpenCleanup ==
    (\E t \in Callers : conn_pc[t] = "failed") =>
        /\ \A t \in started : transport_releases[t] >= 1
        /\ \A t \in entered : session_releases[t] >= 1

\* C30 as stated: while two or more connect() calls are in flight and no
\* call has finished, at most one transport has been started and at most
\* one initialize handshake sent.
C30_SingleInitialization ==
    (/\ Cardinality({t \in Callers : conn_pc[t] \in Connecting}) >= 2
     /\ \A t \in Callers : conn_pc[t] \in Connecting \cup {"idle"})
        => /\ Cardinality(started) <= 1
           /\ handshakes <= 1

(***************************************************************************)
(* Answer extraction with planner messages only                            *)
(***************************************************************************)
PlannerOnly(th) == th # <<>> /\ NonPlanner(th) = {}

\* C27 as stated: when every message of a non-empty transcript is the
\* planner's, the answer is the content of the planner's last message,
\* verbatim.
C27_AnswerIsLastPlannerContent ==
    (pc = "done" /\ PlannerOnly(thread))
        => result = Returned(thread[Len(thread)].content)

\* C27 amended: when every message of a non-empty transcript is the
\* planner's, the answer is the content of the planner's last message with
\* its leading and trailing whitespace removed.
C27_AnswerIsStrippedLastPlannerContent ==
    (pc = "done" /\ PlannerOnly(thread))
        => result = Returned(strip(thread[Len(thread)].content))

\* two planner messages: the second one is the answer
C27_Witness ==
    /\ pc = "done"
    /\ thread = << [source |-> Planner, content |-> Planning],
                   [source |-> Planner, content |-> Keyword] >>
    /\ result = Returned(Keyword)

C31_SerializedInvokes ==
    /\ Cardinality({t \in Callers : call_pc[t] = "awaiting"}) <= 1
    /\ \A i \in 1..Len(wire) :
          (wire[i].dir = "request" /\ i < Len(wire))
             => wire[i + 1] = Received(wire[i].call)

\* C32 as stated: once __aexit__ has released the session the client holds,
\* a get_available_tools or call_tool call raises and is not forwarded to
\* that session.
C32_ClosedRejects ==
    (/\ last_call.op \in {"get_available_tools", "call_tool"}
     /\ session # NoObject
     /\ session_releases[session] >= 1)
        => last_call.raised # None

(***************************************************************************)
(* Writes to the registry                                                  *)
(***************************************************************************)
\* C33 as stated: an entry is written when its kind is registered and when
\* it is first resolved, and never again: a registration does not write an
\* entry that exists, and a resolved entry keeps its cached constructor.
C33_EntryWrittenTwice ==
    [][\A k \in DOMAIN agent_types :
         /\ ~(/\ called' = "register_agent_type"
              /\ ops' # ops
              /\ args'.agent_name = k)
         /\ agent_types[k].loaded
               => /\ k \in DOMAIN agent_types'
                  /\ agent_types'[k] = agent_types[k]]_vars

(***************************************************************************)
(* The message lists only grow                                             *)
(***************************************************************************)
IsPrefix(a, b) == Len(a) <= Len(b) /\ SubSeq(b, 1, Len(a)) = a

\* C34: every step leaves run()'s list `messages` and process_query's list
\* `messages` as they are or appends to them: the list before the step
\* is a prefix of the list after it.
C34_AppendOnly ==
    [][/\ IsPrefix(run_messages, run_messages')
       /\ IsPrefix(messages, messages')]_vars

\* a list the tool-calling loop has appended to in two rounds
C34_Witness ==
    /\ pc = "run"
    /\ run_pc = "done"
    /\ completions = 3
    /\ Len(run_messages) >= 5

(***************************************************************************)
(* Whose message the answer is                                             *)
(***************************************************************************)
\* C35 as stated: when the chat has run and process_query returns the
\* extracted answer, the answer is the (stripped) content of a message of
\* an agent of the roster, never of the user's message that seeds the
\* transcript.
C35_AnswerFromRoster ==
    (pc = "done" /\ failure = None /\ thread # <<>>)
        => \E i \in 2..Len(thread) :
              /\ thread[i].source \in Range(all_agents)
              /\ result = Returned(strip(thread[i].content))

(***************************************************************************)
(* available_agents after a materialization                                *)
(***************************************************************************)
\* C36 as stated: when initialize_agents has returned, the keys of
\* available_agents are exactly the kinds whose worker is in the roster
\* the call returned.
C36_AvailableMatchesRoster ==
    (called = "initialize_agents" /\ ~aborted)
        => available_agents = {k \in DOMAIN outcomes : KindName(k) \in Range(roster)}

(***************************************************************************)
(* A tool_calls response without calls                                     *)
(***************************************************************************)
\* the step is the return of a completion call whose response has finish
\* reason tool_calls and no tool call
EmptyToolCallsReturn ==
    /\ completion_in_flight /\ ~completion_in_flight'
    /\ run_error' = run_error
    /\ msg'.finish_reason = "tool_calls"
    /\ msg'.tool_calls = <<>>

\* C37: such a response ends run() at once: the list is left as it is, no
\* tool is invoked, nothing is printed as the output, and no completion
\* call or any other step of the loop follows.
C37_EmptyToolCallsEndTurn ==
    /\ [][EmptyToolCallsReturn
            => /\ run_pc' = "exited"
               /\ run_messages' = run_messages
               /\ in_flight' = {} /\ invoked' = <<>>
               /\ executed' = executed
               /\ printed' = <<>>]_vars
    /\ [][run_pc = "exited" => runVars' = runVars]_vars

\* after a round with one tool call the model answers with finish reason
\* tool_calls and no call
C37_Witness ==
    /\ run_pc = "exited"
    /\ completions = 2
    /\ Len(run_messages) = 3
    /\ msg.content = Text
    /\ printed = <<>>

(***************************************************************************)
(* The roster of autogen_agent.initialize_agents                           *)
(***************************************************************************)
\* C38: whatever the two tool fetches do, the roster that
\* autogen_agent.initialize_agents returns holds formatter_agent and ends
\* with the planner, and holds a tool-backed worker exactly when its fetch
\* returned tools; the creation functions AgentManager uses build that
\* worker, without tools, when the fetch returned nothing.
C38_AutogenRoster ==
    called = "autogen_agent.initialize_agents"
        => LET d == outcomes["dialogue_agent"]
               p == outcomes["postgres_agent"]
           IN  /\ all_agents # <<>>
               /\ "formatter_agent" \in Range(all_agents)
               /\ all_agents[Len(all_agents)] = Planner
               /\ "dialogue_agent" \in Range(all_agents) <=> d = "tools"
               /\ "postgres_agent" \in Range(all_agents) <=> p = "tools"
               /\ d \in {"empty", "error"}
                     => create_dialogue_agent(get_dialogue_tools(d))
                           = [outcome |-> "agent", with_tools |-> FALSE]
               /\ p \in {"empty", "error"}
                     => create_postgres_agent(get_postgres_tools(p))
                           = [outcome |-> "agent", with_tools |-> FALSE]

\* the dialogue fetch fails and the database settings are missing
C38_Witness ==
    /\ called = "autogen_agent.initialize_agents"
    /\ outcomes["dialogue_agent"] = "error"
    /\ outcomes["postgres_agent"] = "missing_env"
    /\ all_agents = <<"formatter_agent", Planner>>

(***************************************************************************)
(* An enabled kind without a registry entry                                *)
(***************************************************************************)
\* the enabled kinds that have no entry in agent_types
UnknownEnabled == {k \in EnabledKinds : k \notin DOMAIN agent_types}

\* the step is a materialization (initialize_agents, directly or by
\* create_chat)
MaterializeStep ==
    called' \in {"initialize_agents", "create_chat"} /\ ops' = ops + 1

\* the kinds constructed according to out, in the order of the enablement map
ConstructedInOrder(order, out) ==
    SelectSeq(order, LAMBDA k : k \in DOMAIN out /\ out[k] = "agent")

\* the names of the agents built for a sequence of kinds
NamesOfKinds(types, kinds) ==
    [i \in 1..Len(kinds) |-> AgentName(types[kinds[i]].function)]

WorkersOf(r) == SelectSeq(r, LAMBDA n : n # Planner)

\* C39: configure_agents leaves agent_types as it is, and a materialization
\* made while a kind without an entry is enabled does not fail, gives that
\* kind no entry and no agent, and builds the other enabled kinds that
\* construct, once each, in the insertion order of the enablement map.
C39_UnknownKindSkipped ==
    /\ [][(called' = "configure_agents" /\ ops' = ops + 1)
             => agent_types' = agent_types]_vars
    /\ [][(MaterializeStep /\ UnknownEnabled # {})
             => /\ ~aborted'
                /\ \A k \in UnknownEnabled :
                      /\ k \notin DOMAIN agent_types'
                      /\ k \notin available_agents'
                      /\ k \notin Range(roster')
                      /\ outcomes'[k] = "unknown"
                /\ WorkersOf(roster')
                     = NamesOfKinds(agent_types',
                                    ConstructedInOrder(config_order, outcomes'))]_vars

\* ghost_agent is enabled and skipped; the two default workers are built
C39_Witness ==
    /\ called = "initialize_agents"
    /\ GhostKind \in EnabledKinds
    /\ GhostKind \notin DOMAIN agent_types
    /\ outcomes[GhostKind] = "unknown"
    /\ config_order = <<"dialogue_agent", "postgres_agent", "formatter_agent", GhostKind>>
    /\ roster = <<"dialogue_agent", "postgres_agent", Planner>>
====
